---------------------------- MODULE Spec2Model ----------------------------
(***************************************************************************)
(* A model of autocrop.py: main(), convert_pdf_to_images, find_sub_images  *)
(* and process_sub_image.                                                  *)
(*                                                                         *)
(* Images are block images: a matrix of uniformly coloured rectangular     *)
(* blocks, px[r][c] the grey level of block (r, c), cw[c] the width in     *)
(* pixels of block column c and rh[r] the height in pixels of block row r. *)
(* A block of width and height 1 is one pixel.  Grey levels are 0..255;    *)
(* the images are three-channel images whose channels are equal, so the    *)
(* grey conversions (cvtColor, convert('L')) keep the level.               *)
(***************************************************************************)
EXTENDS Integers, Sequences, FiniteSets, TLC

VARIABLES
    pc,                 \* position of main()
    is_pdf,             \* args.input_file ends with ".pdf"
    pdf,                \* what convert_from_path does with the input: ok, pages
    temp_dir,           \* "absent", "present" or "removed"
    image_files,        \* the page images to process
    page_idx,           \* index of the page the outer for loop is at
    page,               \* the image find_sub_images read last
    thresh_bin,         \* the mask cv2.threshold returned
    thresh,             \* the inverted mask handed to findContours
    boxes,              \* the list find_sub_images returned
    boxes_found,        \* how many boxes find_sub_images has returned in all
    box_idx,            \* index of the box the inner for loop is at
    total_images_saved, \* the output counter
    files,              \* the output files written so far
    exit_status,        \* "running", 0, 1 (sys.exit or an uncaught exception)
    ending,             \* how the try block was left: "normal", "sys_exit", "exception"
    cropped_img,        \* process_sub_image: the region cut from the page
    cand,               \* process_sub_image: index into Rotations
    best_rotation,
    best_text,
    found_orientation,
    log,                \* what happened to each candidate evaluated so far
    rotated_final,      \* cropped_img rotated by best_rotation
    bbox,               \* what getbbox returned: a box or NoBox
    final_image         \* the image handed to save

vars == <<pc, is_pdf, pdf, temp_dir, image_files, page_idx, page, thresh_bin, thresh,
          boxes, boxes_found, box_idx, total_images_saved, files, exit_status, ending,
          cropped_img, cand, best_rotation, best_text, found_orientation, log,
          rotated_final, bbox, final_image>>

mainVars == <<is_pdf, pdf, temp_dir, image_files, page_idx, total_images_saved,
              exit_status, ending>>
detectVars == <<page, thresh_bin, thresh, boxes, boxes_found, box_idx>>
searchVars == <<cand, best_rotation, best_text, found_orientation, log>>
outputVars == <<rotated_final, bbox, final_image>>

-----------------------------------------------------------------------------
(* Bounds of the model *)

MaxPages == 2       \* pages a PDF is rasterised into
MaxTextLen == 4     \* characters the OCR engine returns for one header band
GridRows == 3       \* block rows of the pages the detector is checked on
GridCols == 4       \* block columns of those pages
MaxImgW == 3        \* width in pixels of the images the border crop is checked on
MaxImgH == 2        \* height in pixels of those images
CellPx == 80        \* side in pixels of a block of a detector page
ThinPx == 5         \* width of a region too thin for a header band

(* Constants of the program *)

BinaryThreshold == 200      \* cv2.threshold(gray, 200, ...)
MaxVal == 255               \* cv2.threshold(..., 255, ...); white
MinContourArea == 5000      \* cv2.contourArea(cnt) > 5000
DarkMean == 100             \* mean_pixel < 100
SlicePercent == 10          \* rotated_img.height * 0.10
Rotations == <<0, 270, 90, 180>>

-----------------------------------------------------------------------------
(* Sequences *)

RECURSIVE SumSeq(_)
SumSeq(s) == IF s = <<>> THEN 0 ELSE Head(s) + SumSeq(Tail(s))

Reverse(s) == [i \in 1..Len(s) |-> s[Len(s) + 1 - i]]

Min(S) == CHOOSE x \in S : \A y \in S : x <= y
Max(S) == CHOOSE x \in S : \A y \in S : x >= y

(* Block images *)

NRows(img) == Len(img.rh)
NCols(img) == Len(img.cw)
Width(img) == SumSeq(img.cw)
Height(img) == SumSeq(img.rh)
Cells(img) == (1..NRows(img)) \X (1..NCols(img))

\* pixel offset of the left edge of block column c, of the top edge of block row r
ColStart(img, c) == SumSeq(SubSeq(img.cw, 1, c - 1))
RowStart(img, r) == SumSeq(SubSeq(img.rh, 1, r - 1))

Uniform(rows, cols, side, v) ==
    [px |-> [r \in 1..rows |-> [c \in 1..cols |-> v]],
     cw |-> [c \in 1..cols |-> side],
     rh |-> [r \in 1..rows |-> side]]

\* an image with every grey level v replaced by f[v]
MapPx(img, f) ==
    [img EXCEPT !.px = [r \in 1..NRows(img) |-> [c \in 1..NCols(img) |-> f[img.px[r][c]]]]]


RECURSIVE SumFn(_, _)
SumFn(f, S) ==
    IF S = {} THEN 0
    ELSE LET x == CHOOSE y \in S : TRUE IN f[x] + SumFn(f, S \ {x})

\* the sequences that list every element of S once
RECURSIVE Orderings(_)
Orderings(S) ==
    IF S = {} THEN {<<>>}
    ELSE UNION {{<<x>> \o t : t \in Orderings(S \ {x})} : x \in S}

-----------------------------------------------------------------------------
(* find_sub_images: threshold, inversion, external contours, area filter *)

Unreadable == [px |-> <<>>, cw |-> <<>>, rh |-> <<>>]   \* cv2.imread returned None

\* variant: the threshold level itself counted as above the threshold
ThresholdInclusive(v) == IF v >= BinaryThreshold THEN MaxVal ELSE 0

\* cv2.threshold(gray, 200, 255, cv2.THRESH_BINARY): maxval where src > thresh, else 0
Threshold(v) == IF v > BinaryThreshold THEN MaxVal ELSE 0

ThresholdLevels == [v \in 0..255 |-> Threshold(v)]

\* cv2.bitwise_not on 8-bit values
BitwiseNot(v) == 255 - v
BitwiseNotLevels == [v \in 0..255 |-> BitwiseNot(v)]

Adj4(a, b) ==
    \/ a[1] = b[1] /\ (a[2] = b[2] + 1 \/ b[2] = a[2] + 1)
    \/ a[2] = b[2] /\ (a[1] = b[1] + 1 \/ b[1] = a[1] + 1)

Adj8(a, b) ==
    /\ a # b
    /\ a[1] - b[1] \in {-1, 0, 1}
    /\ a[2] - b[2] \in {-1, 0, 1}

RECURSIVE Grow8(_, _)
Grow8(S, N) ==
    LET T == S \cup {n \in N : \E s \in S : Adj8(s, n)}
    IN  IF T = S THEN S ELSE Grow8(T, N)

RECURSIVE Grow4(_, _)
Grow4(S, N) ==
    LET T == S \cup {n \in N : \E s \in S : Adj4(s, n)}
    IN  IF T = S THEN S ELSE Grow4(T, N)

NonZero(mask) == {p \in Cells(mask) : mask.px[p[1]][p[2]] # 0}

\* the 8-connected components of the non-zero pixels
Components(mask) == {Grow8({n}, NonZero(mask)) : n \in NonZero(mask)}

OnFrame(mask, p) ==
    p[1] = 1 \/ p[1] = NRows(mask) \/ p[2] = 1 \/ p[2] = NCols(mask)

\* what the outer border of component C encloses: C and its holes
Filled(mask, C) ==
    LET rest == Cells(mask) \ C
        outside == Grow4({p \in rest : OnFrame(mask, p)}, rest)
    IN  Cells(mask) \ outside

\* cv2.RETR_EXTERNAL: the outer borders of the components no other component
\* encloses; the borders of holes are not reported
ExternalContours(mask) ==
    {C \in Components(mask) :
        \A D \in Components(mask) : D # C => ~(C \subseteq Filled(mask, D))}

\* two regions that touch at a corner only
HasCornerContact(img) ==
    \E r \in 1..NRows(img) - 1, c \in 1..NCols(img) - 1 :
        LET a == img.px[r][c] > BinaryThreshold
            b == img.px[r][c + 1] > BinaryThreshold
            d == img.px[r + 1][c] > BinaryThreshold
            e == img.px[r + 1][c + 1] > BinaryThreshold
        IN  a = e /\ b = d /\ a # b

\* Twice cv2.contourArea of the outer border of C.  The border runs through
\* the centres of the border pixels, half a pixel inside the outline of the
\* filled region, and cuts each concave corner diagonally: the area is
\* A - P/2 + 1 + (concave corners)/2 for an outline of area A and perimeter P.
\* Exact for regions without corner contacts and blocks of 2 pixels or more.
ContourArea2(mask, C) ==
    LET F == Filled(mask, C)
        area == [p \in F |-> mask.cw[p[2]] * mask.rh[p[1]]]
        edge == [p \in F |->
                    (IF <<p[1] - 1, p[2]>> \in F THEN 0 ELSE mask.cw[p[2]])
                  + (IF <<p[1] + 1, p[2]>> \in F THEN 0 ELSE mask.cw[p[2]])
                  + (IF <<p[1], p[2] - 1>> \in F THEN 0 ELSE mask.rh[p[1]])
                  + (IF <<p[1], p[2] + 1>> \in F THEN 0 ELSE mask.rh[p[1]])]
        concave == Cardinality(
            {w \in (1..NRows(mask) - 1) \X (1..NCols(mask) - 1) :
                Cardinality({w, <<w[1], w[2] + 1>>, <<w[1] + 1, w[2]>>,
                             <<w[1] + 1, w[2] + 1>>} \cap F) = 3})
    IN  2 * SumFn(area, F) - SumFn(edge, F) + 2 + concave

\* cv2.boundingRect of a set of blocks: x, y, w, h in pixels
BoundingRect(img, C) ==
    LET r0 == Min({p[1] : p \in C})
        r1 == Max({p[1] : p \in C})
        c0 == Min({p[2] : p \in C})
        c1 == Max({p[2] : p \in C})
    IN  [x |-> ColStart(img, c0), y |-> RowStart(img, r0),
         w |-> ColStart(img, c1 + 1) - ColStart(img, c0),
         h |-> RowStart(img, r1 + 1) - RowStart(img, r0)]

\* f'{w}x{h}+{x}+{y}' as its tokens: a run of digits (d = TRUE, its value n)
\* or a separator character
Num(n) == [d |-> TRUE, n |-> n, ch |-> ""]
Sep(ch) == [d |-> FALSE, n |-> 0, ch |-> ch]
FormatBox(b) == <<Num(b.w), Sep("x"), Num(b.h), Sep("+"), Num(b.x), Sep("+"), Num(b.y)>>

\* map(int, re.findall(r'\d+', box)): the runs of digits, in order
FindAllInts(box) ==
    LET IsNum(t) == t.d
        nums == SelectSeq(box, IsNum)
    IN  [i \in 1..Len(nums) |-> nums[i].n]

LargeContours(mask) ==
    {C \in ExternalContours(mask) : ContourArea2(mask, C) > 2 * MinContourArea}

\* The lists of boxes find_sub_images can return for image p.  For an image
\* imread cannot read, cvtColor raises and the except clause returns [].
\* findContours fixes no order the caller can rely on.
FindSubImages(p) ==
    IF p = Unreadable THEN {<<>>}
    ELSE LET mask == MapPx(MapPx(p, ThresholdLevels), BitwiseNotLevels)
         IN  {[i \in 1..Len(o) |-> FormatBox(BoundingRect(mask, o[i]))] :
                 o \in Orderings(LargeContours(mask))}

-----------------------------------------------------------------------------
(* process_sub_image: crop, rotation, header band, OCR text, border crop *)

\* img.crop((x0, y0, x1, y1)) for a box that runs along block edges
Crop(img, x0, y0, x1, y1) ==
    LET cs == {c \in 1..NCols(img) : ColStart(img, c) >= x0 /\ ColStart(img, c + 1) <= x1}
        rs == {r \in 1..NRows(img) : RowStart(img, r) >= y0 /\ RowStart(img, r + 1) <= y1}
        c0 == IF cs = {} THEN 1 ELSE Min(cs)
        r0 == IF rs = {} THEN 1 ELSE Min(rs)
    IN  [px |-> [r \in 1..Cardinality(rs) |->
                    [c \in 1..Cardinality(cs) |-> img.px[r0 + r - 1][c0 + c - 1]]],
         cw |-> [c \in 1..Cardinality(cs) |-> img.cw[c0 + c - 1]],
         rh |-> [r \in 1..Cardinality(rs) |-> img.rh[r0 + r - 1]]]

\* Image.rotate(angle, expand=True) for a multiple of 90 degrees, counter-clockwise
Rotate(img, angle) ==
    LET nr == NRows(img)
        nc == NCols(img)
    IN  CASE angle = 0 -> img
          [] angle = 90 ->
                [px |-> [r \in 1..nc |-> [c \in 1..nr |-> img.px[c][nc + 1 - r]]],
                 cw |-> img.rh, rh |-> Reverse(img.cw)]
          [] angle = 180 ->
                [px |-> [r \in 1..nr |-> [c \in 1..nc |-> img.px[nr + 1 - r][nc + 1 - c]]],
                 cw |-> Reverse(img.cw), rh |-> Reverse(img.rh)]
          [] angle = 270 ->
                [px |-> [r \in 1..nc |-> [c \in 1..nr |-> img.px[nr + 1 - c][r]]],
                 cw |-> Reverse(img.rh), rh |-> img.cw]

\* int(rotated_img.height * 0.10)
SliceHeight(img) == (Height(img) * SlicePercent) \div 100

\* the sum of the grey levels of the top sh pixel rows
SliceSum(img, sh) ==
    LET rows(r) ==
            LET top == RowStart(img, r)
                bottom == IF RowStart(img, r + 1) < sh THEN RowStart(img, r + 1) ELSE sh
            IN  IF bottom > top THEN bottom - top ELSE 0
        weight == [p \in Cells(img) |-> img.px[p[1]][p[2]] * img.cw[p[2]] * rows(p[1])]
    IN  SumFn(weight, Cells(img))

\* np.mean(gray_slice) < 100
HeaderIsDark(img, sh) == SliceSum(img, sh) < DarkMean * Width(img) * sh

\* OCR text: a sequence of characters
Alphabet == {"a", " "}
Whitespace == {" ", "\n", "\t"}
RawTexts == UNION {[1..n -> Alphabet] : n \in 0..MaxTextLen}

RECURSIVE LStrip(_)
LStrip(s) == IF s # <<>> /\ Head(s) \in Whitespace THEN LStrip(Tail(s)) ELSE s

\* str.strip()
Strip(s) == Reverse(LStrip(Reverse(LStrip(s))))

\* ' ' in text
HasSpace(text) == \E i \in 1..Len(text) : text[i] = " "

\* variant: a text as long as the best replaces it
AcceptsOnTie(text, best) == Len(text) >= Len(best) /\ HasSpace(text)

\* len(text) > len(best_text) and ' ' in text
Accepts(text, best) == Len(text) > Len(best) /\ HasSpace(text)

\* ImageOps.invert on an 'L' image
Invert(v) == 255 - v
InvertLevels == [v \in 0..255 |-> Invert(v)]

NoBox == [some |-> FALSE, left |-> 0, upper |-> 0, right |-> 0, lower |-> 0]

\* Image.getbbox(): the bounding box of the non-zero pixels, None when there are none
GetBBox(img) ==
    LET nz == NonZero(img)
    IN  IF nz = {} THEN NoBox
        ELSE [some  |-> TRUE,
              left  |-> ColStart(img, Min({p[2] : p \in nz})),
              upper |-> RowStart(img, Min({p[1] : p \in nz})),
              right |-> ColStart(img, Max({p[2] : p \in nz}) + 1),
              lower |-> RowStart(img, Max({p[1] : p \in nz}) + 1)]

\* variant: getbbox on the image as it is, without the inversion
AutoCropNoInvert(img) ==
    LET box == GetBBox(img)
    IN  IF box.some THEN Crop(img, box.left, box.upper, box.right, box.lower) ELSE img

\* lines 140-144: invert, getbbox, crop when there is a box, invert back
AutoCrop(img) ==
    LET inv == MapPx(img, InvertLevels)
        box == GetBBox(inv)
        cut == IF box.some THEN Crop(inv, box.left, box.upper, box.right, box.lower)
               ELSE inv
    IN  MapPx(cut, InvertLevels)

\* f"final_image_{total_images_saved}.jpg"
OutputName(n) == [prefix |-> "final_image_", number |-> n, ext |-> ".jpg"]

-----------------------------------------------------------------------------
(* Inputs *)

Blocks(px, cw, rh) == [px |-> px, cw |-> cw, rh |-> rh]

\* a white page
PageBlank == Uniform(2, 2, CellPx, MaxVal)

\* two dark photographs, one black and one mid-grey, on a white page
PageTwoPhotos ==
    Blocks(<< <<255, 255, 255, 255, 255>>,
              <<255,   0, 255, 150, 255>>,
              <<255, 255, 255, 255, 255>> >>,
           [c \in 1..5 |-> CellPx], [r \in 1..3 |-> CellPx])

\* a thin black strip on a white page
PageStrip ==
    Blocks(<< <<255, 255, 255>>,
              <<255,   0, 255>>,
              <<255, 255, 255>> >>,
           <<CellPx, ThinPx, CellPx>>, <<CellPx, 25 * CellPx, CellPx>>)

\* two white rectangles on a black page
PageWhiteOnBlack ==
    Blocks(<< <<0,   0, 0,   0, 0>>,
              <<0, 255, 0, 255, 0>>,
              <<0,   0, 0,   0, 0>> >>,
           [c \in 1..5 |-> CellPx], [r \in 1..3 |-> CellPx])

SamplePages == {PageBlank, PageTwoPhotos, PageStrip, PageWhiteOnBlack, Unreadable}

\* what the OCR engine returns in the runs of the whole program
SampleTexts == {<<>>, <<"a", "a">>, <<" ", "a", " ", "a">>}

\* every page of rows x cols blocks of black and white in which no
\* two regions touch at a corner only
GridPages(rows, cols) ==
    {g \in {Blocks(px, [c \in 1..cols |-> CellPx], [r \in 1..rows |-> CellPx]) :
                px \in [1..rows -> [1..cols -> {0, MaxVal}]]} :
        ~HasCornerContact(g)}

\* one-block pages of every grey level
GreyPages == {Uniform(1, 1, CellPx, v) : v \in 0..255}

\* regions whose four sides are dark or bright independently, and thin regions
SideRegions ==
    {Blocks(<< <<0, t, 0>>, <<l, 0, r>>, <<0, b, 0>> >>,
            <<CellPx \div 4, CellPx, CellPx \div 4>>,
            <<CellPx \div 4, CellPx, CellPx \div 4>>) :
        t \in {0, 200}, l \in {0, 200}, r \in {0, 200}, b \in {0, 200}}
ThinRegions ==
    {Blocks(<< <<0>> >>, <<ThinPx>>, <<25 * CellPx>>),
     Blocks(<< <<0>> >>, <<25 * CellPx>>, <<ThinPx>>)}
Regions == SideRegions \cup ThinRegions

\* every image of up to maxw x maxh pixels, each white or of the
\* lightest level that is not white
PixelImages(maxw, maxh) ==
    UNION {{Blocks(px, [c \in 1..w |-> 1], [r \in 1..h |-> 1]) :
                px \in [1..h -> [1..w -> {254, 255}]]} :
           w \in 1..maxw, h \in 1..maxh}

-----------------------------------------------------------------------------
(* main() *)

\* convert_from_path raises, or returns the images of 0..MaxPages pages
PdfOutcomes ==
    {[ok |-> FALSE, pages |-> 0]} \cup {[ok |-> TRUE, pages |-> n] : n \in 0..MaxPages}

Init ==
    /\ pc = "start"
    /\ is_pdf \in BOOLEAN
    /\ pdf \in IF is_pdf THEN PdfOutcomes ELSE {[ok |-> TRUE, pages |-> 0]}
    /\ temp_dir = "absent"
    /\ image_files = <<>>
    /\ page_idx = 0
    /\ page = Unreadable
    /\ thresh_bin = Unreadable
    /\ thresh = Unreadable
    /\ boxes = <<>>
    /\ boxes_found = 0
    /\ box_idx = 0
    /\ total_images_saved = 0
    /\ files = {}
    /\ exit_status = "running"
    /\ ending = "none"
    /\ cropped_img = Unreadable
    /\ cand = 0
    /\ best_rotation = 0
    /\ best_text = <<>>
    /\ found_orientation = FALSE
    /\ log = <<>>
    /\ rotated_final = Unreadable
    /\ bbox = NoBox
    /\ final_image = Unreadable

\* lines 155-162: mkdtemp, then the input is a PDF or one image
MakeTempDir ==
    /\ pc = "start"
    /\ temp_dir' = "present"
    /\ IF is_pdf
       THEN /\ pc' = "convert"
            /\ UNCHANGED <<image_files, page_idx>>
       ELSE /\ pc' = "pages"
            /\ image_files' = <<1>>
            /\ page_idx' = 1
    /\ total_images_saved' = 0
    /\ UNCHANGED <<is_pdf, pdf, exit_status, ending, files, cropped_img>>
    /\ UNCHANGED <<detectVars, searchVars, outputVars>>

\* lines 41-42 and 50-51: convert_pdf_to_images returns the page images
ConvertReturns ==
    /\ pc = "convert"
    /\ pdf.ok
    /\ pdf.pages > 0
    /\ image_files' = [i \in 1..pdf.pages |-> i]
    /\ page_idx' = 1
    /\ pc' = "pages"
    /\ UNCHANGED <<is_pdf, pdf, temp_dir, total_images_saved, exit_status, ending, files,
                   cropped_img>>
    /\ UNCHANGED <<detectVars, searchVars, outputVars>>

\* lines 43-45: convert_from_path raises, sys.exit(1)
ConvertRaises ==
    /\ pc = "convert"
    /\ ~pdf.ok
    /\ ending' = "sys_exit"
    /\ pc' = "finally"
    /\ UNCHANGED <<is_pdf, pdf, temp_dir, image_files, page_idx, total_images_saved,
                   exit_status, files, cropped_img>>
    /\ UNCHANGED <<detectVars, searchVars, outputVars>>

\* variant: an empty list of page images is returned to main()
ConvertEmptyGoesOn ==
    /\ pc = "convert"
    /\ pdf.ok
    /\ pdf.pages = 0
    /\ page_idx' = 1
    /\ pc' = "pages"
    /\ UNCHANGED <<is_pdf, pdf, temp_dir, image_files, total_images_saved, exit_status,
                   ending, files, cropped_img>>
    /\ UNCHANGED <<detectVars, searchVars, outputVars>>

\* lines 47-49: no page image, sys.exit(1)
ConvertEmpty ==
    /\ pc = "convert"
    /\ pdf.ok
    /\ pdf.pages = 0
    /\ ending' = "sys_exit"
    /\ pc' = "finally"
    /\ UNCHANGED <<is_pdf, pdf, temp_dir, image_files, page_idx, total_images_saved, exit_status, files,
                   cropped_img>>
    /\ UNCHANGED <<detectVars, searchVars, outputVars>>

\* variant: find_sub_images without its except clause
FindPageNoCatch(P) ==
    /\ pc = "pages"
    /\ page_idx <= Len(image_files)
    /\ \E p \in P :
        /\ page' = p
        /\ thresh_bin' = MapPx(p, ThresholdLevels)
        /\ thresh' = MapPx(MapPx(p, ThresholdLevels), BitwiseNotLevels)
        /\ IF p = Unreadable
           THEN /\ ending' = "exception"
                /\ pc' = "finally"
                /\ UNCHANGED <<boxes, boxes_found, box_idx>>
           ELSE /\ boxes' \in FindSubImages(p)
                /\ boxes_found' = boxes_found + Len(boxes')
                /\ box_idx' = 1
                /\ pc' = "boxes"
                /\ UNCHANGED ending
    /\ UNCHANGED <<is_pdf, pdf, temp_dir, image_files, page_idx, total_images_saved,
                   exit_status, files, cropped_img, searchVars, outputVars>>

\* line 164: find_sub_images on the next page, whose content is one of P
FindPage(P) ==
    /\ pc = "pages"
    /\ page_idx <= Len(image_files)
    /\ \E p \in P :
        /\ page' = p
        /\ thresh_bin' = MapPx(p, ThresholdLevels)
        /\ thresh' = MapPx(MapPx(p, ThresholdLevels), BitwiseNotLevels)
        /\ boxes' \in FindSubImages(p)
    /\ boxes_found' = boxes_found + Len(boxes')
    /\ box_idx' = 1
    /\ pc' = "boxes"
    /\ UNCHANGED <<mainVars, files, cropped_img, searchVars, outputVars>>

\* line 163: the pages are exhausted, the try block ends
PagesDone ==
    /\ pc = "pages"
    /\ page_idx > Len(image_files)
    /\ ending' = "normal"
    /\ pc' = "finally"
    /\ UNCHANGED <<is_pdf, pdf, temp_dir, image_files, page_idx, total_images_saved,
                   exit_status, files, cropped_img>>
    /\ UNCHANGED <<detectVars, searchVars, outputVars>>

\* line 165: the boxes of the page are exhausted
BoxesDone ==
    /\ pc = "boxes"
    /\ box_idx > Len(boxes)
    /\ page_idx' = page_idx + 1
    /\ pc' = "pages"
    /\ UNCHANGED <<is_pdf, pdf, temp_dir, image_files, total_images_saved, exit_status,
                   ending, files, cropped_img>>
    /\ UNCHANGED <<detectVars, searchVars, outputVars>>

\* lines 166-169 and 87-96: count the box, enter process_sub_image, parse the
\* box, open the page and cut the region
OpenRegion ==
    /\ pc = "boxes"
    /\ box_idx <= Len(boxes)
    /\ total_images_saved' = total_images_saved + 1
    /\ LET n == FindAllInts(boxes[box_idx])
           width == n[1]
           height == n[2]
           x == n[3]
           y == n[4]
       IN  cropped_img' = Crop(page, x, y, x + width, y + height)
    /\ best_rotation' = 0
    /\ best_text' = <<>>
    /\ found_orientation' = FALSE
    /\ cand' = 1
    /\ log' = <<>>
    /\ pc' = "candidates"
    /\ UNCHANGED <<is_pdf, pdf, temp_dir, image_files, page_idx, exit_status, ending, files>>
    /\ UNCHANGED <<detectVars, outputVars>>

\* lines 166-169 and 90-91: Image.open or crop raises; nothing catches it
OpenRaises ==
    /\ pc = "boxes"
    /\ box_idx <= Len(boxes)
    /\ total_images_saved' = total_images_saved + 1
    /\ ending' = "exception"
    /\ pc' = "finally"
    /\ UNCHANGED <<is_pdf, pdf, temp_dir, image_files, page_idx, exit_status, files,
                   cropped_img>>
    /\ UNCHANGED <<detectVars, searchVars, outputVars>>

-----------------------------------------------------------------------------
(* process_sub_image: the orientation search, lines 97-130 *)

InSearch == pc = "candidates" /\ cand <= Len(Rotations)
Rotated == Rotate(cropped_img, Rotations[cand])

Entry(slice, dark, ocr, text) ==
    [rotation |-> Rotations[cand], slice |-> slice, dark |-> dark, ocr |-> ocr,
     text |-> text]

searchFrame == <<mainVars, detectVars, outputVars, files, cropped_img>>

\* line 103: the header band is empty, continue
SkipEmptySlice ==
    /\ InSearch
    /\ SliceHeight(Rotated) = 0
    /\ log' = Append(log, Entry(0, FALSE, "none", <<>>))
    /\ cand' = cand + 1
    /\ UNCHANGED <<pc, best_rotation, best_text, found_orientation>>
    /\ UNCHANGED searchFrame

\* lines 129-130: the header band is not dark, no OCR
SkipBright ==
    /\ InSearch
    /\ SliceHeight(Rotated) > 0
    /\ ~HeaderIsDark(Rotated, SliceHeight(Rotated))
    /\ log' = Append(log, Entry(SliceHeight(Rotated), FALSE, "none", <<>>))
    /\ cand' = cand + 1
    /\ UNCHANGED <<pc, best_rotation, best_text, found_orientation>>
    /\ UNCHANGED searchFrame

\* variant: the except clause leaves the loop
OcrRaisesAbort ==
    /\ InSearch
    /\ SliceHeight(Rotated) > 0
    /\ HeaderIsDark(Rotated, SliceHeight(Rotated))
    /\ log' = Append(log, Entry(SliceHeight(Rotated), TRUE, "error", <<>>))
    /\ cand' = Len(Rotations) + 1
    /\ UNCHANGED <<pc, best_rotation, best_text, found_orientation>>
    /\ UNCHANGED searchFrame

\* lines 126-128: image_to_string raises; caught, continue
OcrRaises ==
    /\ InSearch
    /\ SliceHeight(Rotated) > 0
    /\ HeaderIsDark(Rotated, SliceHeight(Rotated))
    /\ log' = Append(log, Entry(SliceHeight(Rotated), TRUE, "error", <<>>))
    /\ cand' = cand + 1
    /\ UNCHANGED <<pc, best_rotation, best_text, found_orientation>>
    /\ UNCHANGED searchFrame

\* lines 119-125: image_to_string returns one of T; the text is stripped and
\* replaces the best when it is longer and holds a space
OcrReturns(T) ==
    /\ InSearch
    /\ SliceHeight(Rotated) > 0
    /\ HeaderIsDark(Rotated, SliceHeight(Rotated))
    /\ \E raw \in T :
        LET text == Strip(raw)
        IN  /\ log' = Append(log, Entry(SliceHeight(Rotated), TRUE, "ok", text))
            /\ IF Accepts(text, best_text)
               THEN /\ best_text' = text
                    /\ best_rotation' = Rotations[cand]
                    /\ found_orientation' = TRUE
               ELSE UNCHANGED <<best_text, best_rotation, found_orientation>>
    /\ cand' = cand + 1
    /\ UNCHANGED pc
    /\ UNCHANGED searchFrame

\* lines 99-109: rotate, crop, cvtColor or mean raises; nothing catches it
CandidateRaises ==
    /\ InSearch
    /\ ending' = "exception"
    /\ pc' = "finally"
    /\ UNCHANGED <<is_pdf, pdf, temp_dir, image_files, page_idx, total_images_saved,
                   exit_status, files, cropped_img>>
    /\ UNCHANGED <<detectVars, searchVars, outputVars>>

SearchDone == pc = "candidates" /\ cand > Len(Rotations)

\* lines 132-147: rotate by the best rotation, crop the border, save
Finalize ==
    /\ SearchDone
    /\ rotated_final' = Rotate(cropped_img, best_rotation)
    /\ bbox' = GetBBox(MapPx(Rotate(cropped_img, best_rotation), InvertLevels))
    /\ final_image' = AutoCrop(Rotate(cropped_img, best_rotation))
    /\ files' = files \cup {OutputName(total_images_saved)}
    /\ box_idx' = box_idx + 1
    /\ pc' = "boxes"
    \* process_sub_image returns: its locals are gone
    /\ cropped_img' = Unreadable
    /\ cand' = 0
    /\ best_rotation' = 0
    /\ best_text' = <<>>
    /\ found_orientation' = FALSE
    /\ log' = <<>>
    /\ UNCHANGED <<mainVars, page, thresh_bin, thresh, boxes, boxes_found>>

\* lines 137-146: rotate, the border crop or save raises; nothing catches it
FinalizeRaises ==
    /\ SearchDone
    /\ ending' = "exception"
    /\ pc' = "finally"
    /\ UNCHANGED <<is_pdf, pdf, temp_dir, image_files, page_idx, total_images_saved,
                   exit_status, files, cropped_img>>
    /\ UNCHANGED <<detectVars, searchVars, outputVars>>

\* variant: the directory is removed after the try block, not in finally
FinallyKeepDir ==
    /\ pc = "finally"
    /\ temp_dir' = IF ending = "normal" THEN "removed" ELSE temp_dir
    /\ exit_status' = IF ending = "normal" THEN 0 ELSE 1
    /\ pc' = "done"
    /\ UNCHANGED <<is_pdf, pdf, image_files, page_idx, total_images_saved, ending, files,
                   cropped_img>>
    /\ UNCHANGED <<detectVars, searchVars, outputVars>>

\* lines 171-172: the finally clause removes the directory, then the process
\* ends: status 0 after the loop, 1 after sys.exit(1) or an uncaught exception
Finally ==
    /\ pc = "finally"
    /\ temp_dir' = "removed"
    /\ exit_status' = IF ending = "normal" THEN 0 ELSE 1
    /\ pc' = "done"
    /\ UNCHANGED <<is_pdf, pdf, image_files, page_idx, total_images_saved, ending, files,
                   cropped_img>>
    /\ UNCHANGED <<detectVars, searchVars, outputVars>>

-----------------------------------------------------------------------------
(* Specifications *)

\* the whole program on the sample pages
Next ==
    \/ MakeTempDir
    \/ ConvertReturns
    \/ ConvertRaises
    \/ ConvertEmpty
    \/ FindPage(SamplePages)
    \/ PagesDone
    \/ BoxesDone
    \/ OpenRegion
    \/ OpenRaises
    \/ SkipEmptySlice
    \/ SkipBright
    \/ OcrRaises
    \/ OcrReturns(SampleTexts)
    \/ CandidateRaises
    \/ Finalize
    \/ FinalizeRaises
    \/ Finally

Spec == Init /\ [][Next]_vars

\* one image, its content one of Regions, the OCR engine returning any text,
\* no failure but the engine's
InitResolve == Init /\ ~is_pdf

NextResolve ==
    \/ MakeTempDir
    \/ FindPage(Regions)
    \/ OpenRegion
    \/ SkipEmptySlice
    \/ SkipBright
    \/ OcrRaises
    \/ OcrReturns(RawTexts)
    \/ Finalize
    \/ BoxesDone
    \/ PagesDone
    \/ Finally

SpecResolve == InitResolve /\ [][NextResolve]_vars

\* find_sub_images on every page of GridRows x GridCols blocks
NextDetect ==
    \/ MakeTempDir
    \/ FindPage(GridPages(GridRows, GridCols))

SpecDetect == InitResolve /\ [][NextDetect]_vars

\* find_sub_images on a page of every grey level
NextThreshold ==
    \/ MakeTempDir
    \/ FindPage(GreyPages)

SpecThreshold == InitResolve /\ [][NextThreshold]_vars

\* process_sub_image at line 137, for every small image and every rotation
InitCrop ==
    /\ pc = "candidates"
    /\ is_pdf = FALSE
    /\ pdf = [ok |-> TRUE, pages |-> 0]
    /\ temp_dir = "present"
    /\ image_files = <<1>>
    /\ page_idx = 1
    /\ cropped_img \in PixelImages(MaxImgW, MaxImgH)
    /\ page = cropped_img
    /\ thresh_bin = MapPx(page, ThresholdLevels)
    /\ thresh = MapPx(thresh_bin, BitwiseNotLevels)
    /\ boxes = <<FormatBox(BoundingRect(page, Cells(page)))>>
    /\ boxes_found = 1
    /\ box_idx = 1
    /\ total_images_saved = 1
    /\ files = {}
    /\ exit_status = "running"
    /\ ending = "none"
    /\ cand = Len(Rotations) + 1
    /\ \E i \in 1..Len(Rotations) : best_rotation = Rotations[i]
    /\ best_text = IF best_rotation = 0 THEN <<>> ELSE <<"a", " ", "a">>
    /\ found_orientation = (best_rotation # 0)
    /\ log = <<>>
    /\ rotated_final = Unreadable
    /\ bbox = NoBox
    /\ final_image = Unreadable

NextCrop == Finalize

SpecCrop == InitCrop /\ [][NextCrop]_vars

-----------------------------------------------------------------------------
(* Properties *)

Names(n) == {OutputName(i) : i \in 1..n}

\* C1: whenever main() is between pages or has left the try block, the files
\* written are exactly final_image_1 .. final_image_k, k the number of boxes
\* find_sub_images has returned so far: one file per box, numbered on across
\* pages.
C1_OneFilePerBox ==
    pc \in {"pages", "finally", "done"} => files = Names(boxes_found)

\* C2: a run that has ended has removed the temporary directory, whichever
\* way the try block was left.
C2_TempDirRemoved == pc = "done" => temp_dir = "removed"

C2_Witness == pc = "done" /\ ending = "exception" /\ temp_dir = "removed"

\* the reference search of C3: among the candidates whose band was dark, whose
\* OCR succeeded and whose text holds a space, the longest text, the earliest
\* of the longest; rotation 0 when there is none
Qualifying(l) == {i \in 1..Len(l) : l[i].dark /\ l[i].ocr = "ok" /\ HasSpace(l[i].text)}
ReferenceRotation(l) ==
    IF Qualifying(l) = {} THEN 0
    ELSE LET longest == Max({Len(l[i].text) : i \in Qualifying(l)})
         IN  l[Min({i \in Qualifying(l) : Len(l[i].text) = longest})].rotation

\* C3: when the four candidates have been evaluated the best rotation is the
\* reference search's, and the image handed on is the region rotated by it.
C3_BestIsReference ==
    /\ [](SearchDone =>
            /\ Len(log) = Len(Rotations)
            /\ \A i \in 1..Len(log) : log[i].rotation = Rotations[i]
            /\ best_rotation = ReferenceRotation(log)
            /\ found_orientation = (Qualifying(log) # {}))
    /\ [][(SearchDone /\ pc' = "boxes") =>
            rotated_final' = Rotate(cropped_img, ReferenceRotation(log))]_vars

\* an earlier, shorter text loses to a later longer one, and of two longest
\* texts the earlier wins
C3_Witness ==
    /\ SearchDone
    /\ Qualifying(log) = {1, 2, 3}
    /\ Len(log[1].text) < Len(log[2].text)
    /\ Len(log[2].text) = Len(log[3].text)
    /\ best_rotation = 270

\* C4: a run ends only on a setup failure (sys.exit in the PDF conversion) or
\* when every page has been processed: a failure in one region does not end it.
C4_FailuresContained ==
    pc = "done" => (ending = "sys_exit" \/ page_idx > Len(image_files))

\* C5: a step in which the OCR call raises leaves the best rotation and text
\* as they were, stays in the region and moves on to the next candidate.
C5_OcrFailureSkipsCandidate ==
    [][(InSearch /\ Len(log') = Len(log) + 1 /\ log'[Len(log')].ocr = "error") =>
            /\ best_rotation' = best_rotation
            /\ best_text' = best_text
            /\ found_orientation' = found_orientation
            /\ pc' = "candidates"
            /\ cand' = cand + 1
            /\ ending' = ending]_vars

\* the OCR call raised for the first three candidates and the fourth was chosen
C5_Witness ==
    /\ SearchDone
    /\ \A i \in 1..3 : log[i].ocr = "error"
    /\ best_rotation = Rotations[4]
    /\ found_orientation

\* C6: find_sub_images always returns to main(); on an unreadable page it
\* returns [], writes no file and leaves the counter alone, and main() moves
\* on to the next page.
C6_DetectionFailureIsEmptyPage ==
    [][/\ (pc = "pages" /\ page_idx <= Len(image_files)) =>
            /\ pc' = "boxes"
            /\ ending' = ending
            /\ files' = files
            /\ total_images_saved' = total_images_saved
            /\ page' = Unreadable => (boxes' = <<>> /\ boxes_found' = boxes_found)
       /\ (pc = "boxes" /\ page = Unreadable) =>
            /\ pc' = "pages"
            /\ page_idx' = page_idx + 1
            /\ files' = files
            /\ total_images_saved' = total_images_saved]_vars

\* main() is at the second page after detection failed on the first
C6_Witness ==
    /\ pc = "pages"
    /\ page = Unreadable
    /\ page_idx = 2
    /\ Len(image_files) = 2
    /\ ending = "none"

\* C7: when the PDF conversion raises or yields no page, no page is ever
\* searched, no file is written, and the run ends with status 1.
C7_EmptyPdfExitsFirst ==
    (is_pdf /\ (~pdf.ok \/ pdf.pages = 0)) =>
        /\ pc \in {"start", "convert", "finally", "done"}
        /\ files = {}
        /\ boxes_found = 0
        /\ page = Unreadable
        /\ total_images_saved = 0
        /\ pc = "done" => exit_status = 1

C7_Witness ==
    pc = "done" /\ is_pdf /\ pdf.ok /\ pdf.pages = 0 /\ exit_status = 1 /\ files = {}

\* the white regions of a page, and a page of two separate white rectangles,
\* each larger than the noise threshold, on black
WhiteRegions(pg) == Components(MapPx(pg, ThresholdLevels))
IsRectangle(pg, C) ==
    \A r \in {p[1] : p \in C}, c \in {p[2] : p \in C} : <<r, c>> \in C
TwoWhiteRectangles(pg) ==
    /\ pg # Unreadable
    /\ Cardinality(WhiteRegions(pg)) = 2
    /\ \A p \in Cells(pg) : pg.px[p[1]][p[2]] \in {0, MaxVal}
    /\ \A W \in WhiteRegions(pg) :
        /\ IsRectangle(pg, W)
        /\ BoundingRect(pg, W).w * BoundingRect(pg, W).h > MinContourArea

\* C8: on a page of two separate white rectangles on black, find_sub_images
\* returns two boxes, the bounding boxes of the two white rectangles.
C8_TwoWhiteRegionsTwoBoxes ==
    (pc = "boxes" /\ TwoWhiteRectangles(page)) =>
        /\ Len(boxes) = 2
        /\ {boxes[i] : i \in 1..Len(boxes)} =
               {FormatBox(BoundingRect(page, W)) : W \in WhiteRegions(page)}

\* the blocks r0..r1 x c0..c1 of an image
Window(img, r0, r1, c0, c1) ==
    [px |-> [r \in 1..(r1 - r0 + 1) |-> [c \in 1..(c1 - c0 + 1) |->
                img.px[r0 + r - 1][c0 + c - 1]]],
     cw |-> [c \in 1..(c1 - c0 + 1) |-> img.cw[c0 + c - 1]],
     rh |-> [r \in 1..(r1 - r0 + 1) |-> img.rh[r0 + r - 1]]]

NonWhite(img) == {p \in Cells(img) : img.px[p[1]][p[2]] # MaxVal}

C10_ForegroundFrom200 ==
    pc = "boxes" =>
        \A p \in Cells(page) :
            thresh_bin.px[p[1]][p[2]] =
                IF page.px[p[1]][p[2]] >= BinaryThreshold THEN MaxVal ELSE 0

\* C10 as amended: a pixel becomes 255 exactly when its grey level is above
\* 200, and 0 otherwise; level 200 becomes 0.
C10_ForegroundAbove200 ==
    pc = "boxes" =>
        \A p \in Cells(page) :
            /\ thresh_bin.px[p[1]][p[2]] \in {0, MaxVal}
            /\ thresh_bin.px[p[1]][p[2]] = MaxVal <=> page.px[p[1]][p[2]] >= BinaryThreshold + 1

C10_Witness ==
    /\ pc = "boxes"
    /\ page.px[1][1] = BinaryThreshold
    /\ thresh_bin.px[1][1] = 0

=============================================================================
